---------------------------- MODULE Spec2Model ----------------------------
(***************************************************************************)
(* ProNotes sticky notes: the local-storage client (src/script.js), the    *)
(* server-backed client (src/public/script.js) and the Express/Postgres    *)
(* API (src/server.js, table schema in the README, src/unnamed/part_000).  *)
(*                                                                         *)
(* Encoding of JavaScript / SQL values:                                    *)
(*   strings        sequences of one-character strings                     *)
(*   booleans/null  "true", "false", "null" (a JSON value of the pinned    *)
(*                  column, which is BOOLEAN DEFAULT FALSE and nullable)   *)
(*   dates          a day number, 0 for null / no date                     *)
(*   timestamps     a clock reading (Date.now(), CURRENT_TIMESTAMP)        *)
(***************************************************************************)
EXTENDS Integers, Sequences, FiniteSets, TLC

VARIABLES
    variant,         \* "local": src/script.js; "server": src/public/script.js + src/server.js
    engine,          \* the JavaScript engine's Array.prototype.sort algorithm
    localStorage,    \* the array stored under 'stickyNotesApp.notes'
    db,              \* the rows of the notes table
    displayed,       \* the notes appended to notesContainer, in order
    searchTerm,      \* searchInput.value
    noteIdToDelete,  \* 0 for null
    modalActive,     \* confirmModal has class 'active'
    indicator,       \* savingIndicator.textContent while it is shown, "" otherwise
    alerts,          \* the message of the alert() the last handler raised, "" for none
    clock,           \* the wall clock (Date.now(), CURRENT_TIMESTAMP)
    nextId,          \* the SERIAL sequence of notes.id
    readable,        \* the backing medium can be read: the stored blob parses (local),
                     \* GET /api/notes is answered with 200 (server)
    colour,          \* the last getNoteColorClass call of renderNote and the class it gave
    timers,          \* savingIndicator's opacity and the pending setTimeout callbacks
    inflight,        \* the requests of the server-backed client awaiting their response
    last             \* history: the last handler's store call, the store before it, its outcome

vars == <<variant, engine, localStorage, db, displayed, searchTerm, noteIdToDelete,
          modalActive, indicator, alerts, clock, nextId, readable, colour, timers,
          inflight, last>>

-----------------------------------------------------------------------------
(* Bounds of the model *)

MaxNotes == 3

\* the last clock reading, and the last value of the id sequence
MaxClock == 2

\* the most notes the application's store holds
MaxStored == 2

\* the most setTimeout callbacks of one kind that are pending at a time
MaxTimers == 2

\* the most requests of the server-backed client that await their response at a time
MaxInflight == 2

\* the calendar days a due date is drawn from (0 is "no due date")
DueDates == {10, 11}

\* note texts and search terms the inputs are drawn from
Texts == {<<"A", "b">>, <<"b">>}

Terms == {<<>>, <<"a", "B">>}

Engines == {"binaryInsertion", "linearInsertion"}

\* raw contents of the note textarea and of an edited note paragraph
Inputs == {<<"A", "b">>, <<" ", "b">>, <<" ">>}

\* values of the due date input of the running application ("" is 0)
DueInputs == {0, 10}

\* values of the reminder time input ("" is 0, else minutes after midnight)
ReminderTimes == {0, 540}

\* current dates and times of day (minutes after midnight) a note is rendered at,
\* and the calendar days its due date is drawn from
Todays == {10, 11}

Minutes == {0, 539, 540, 541}

ColourDays == 9..13

\* no getNoteColorClass call yet
NoColour == [due_date |-> [format |-> "null", day |-> 0], reminder_time |-> 0,
             today |-> 0, minute |-> 0, class |-> ""]

\* the most elements of an imported JSON array
MaxImport == 2

\* the ids the notes of an imported file carry
ImportIds == {1, 2}

\* history record of a handler that made no store call.  calls are the Note Store
\* calls the handler issued (getItem/setItem, or the HTTP method), threw is an
\* exception that left the handler uncaught
NoOp == [op |-> "none", id |-> 0, updates |-> <<>>, before |-> {}, status |-> 0,
         notified |-> FALSE, rendered |-> FALSE, threw |-> FALSE, calls |-> <<>>]

-----------------------------------------------------------------------------
(* JavaScript helpers *)

Range(s) == {s[i] : i \in 1..Len(s)}

\* Array.prototype.reverse
Reverse(s) == [i \in 1..Len(s) |-> s[Len(s) + 1 - i]]

\* String.prototype.toLowerCase on the model's alphabet
toLowerCase(s) ==
    [i \in 1..Len(s) |->
        CASE s[i] = "A" -> "a"
          [] s[i] = "B" -> "b"
          [] OTHER -> s[i]]

\* String.prototype.includes
includes(t, s) ==
    \E i \in 1..(Len(t) - Len(s) + 1) : SubSeq(t, i, i + Len(s) - 1) = s

\* String.prototype.trim
RECURSIVE trimStart(_)
trimStart(s) == IF s # <<>> /\ Head(s) = " " THEN trimStart(Tail(s)) ELSE s

\* the text as typed, untrimmed
untrimmed(s) == s

trim(s) == Reverse(trimStart(Reverse(trimStart(s))))

\* truthiness of a value of the pinned field
Truthy(v) == v = "true"

\* the ! operator
Negate(v) == IF Truthy(v) THEN "false" ELSE "true"

\* new Date(x).getTime() of a calendar day, and of a timestamp
DateMs(day) == day * 86400000

\* Array.prototype.filter
RECURSIVE FilterSeq(_, _)
FilterSeq(s, keep) ==
    IF s = <<>> THEN <<>>
    ELSE IF Head(s) \in keep THEN <<Head(s)>> \o FilterSeq(Tail(s), keep)
    ELSE FilterSeq(Tail(s), keep)

-----------------------------------------------------------------------------
(* Array.prototype.sort(comparefn).  cmp is comparefn tabulated on the    *)
(* elements: cmp[<<a, b>>] = comparefn(a, b).  For a consistent comparefn  *)
(* the result is the one stable ordering; for an inconsistent one the     *)
(* order is implementation-defined, and the two algorithms below are the  *)
(* ones engines run on short arrays.                                       *)

\* V8 BinaryInsertionSort: where pivot belongs in work[1..right-1]
RECURSIVE BinarySearchPos(_, _, _, _, _)
BinarySearchPos(work, pivot, left, right, cmp) ==
    IF left >= right THEN left
    ELSE LET mid == left + ((right - left) \div 2)
         IN  IF cmp[<<pivot, work[mid]>>] < 0
             THEN BinarySearchPos(work, pivot, left, mid, cmp)
             ELSE BinarySearchPos(work, pivot, mid + 1, right, cmp)

InsertAt(s, pos, x) == SubSeq(s, 1, pos - 1) \o <<x>> \o SubSeq(s, pos, Len(s))

RECURSIVE BinaryInsertionSort(_, _, _)
BinaryInsertionSort(work, start, cmp) ==
    IF start > Len(work) THEN work
    ELSE LET pivot == work[start]
             pos == BinarySearchPos(work, pivot, 1, start, cmp)
             moved == InsertAt(SubSeq(work, 1, start - 1), pos, pivot)
                          \o SubSeq(work, start + 1, Len(work))
         IN  BinaryInsertionSort(moved, start + 1, cmp)

\* V8 CountAndMakeRun: the length of the initial run
RECURSIVE RunLength(_, _, _, _)
RunLength(work, idx, isDescending, cmp) ==
    IF idx > Len(work) THEN idx - 1
    ELSE LET order == cmp[<<work[idx], work[idx - 1]>>]
         IN  IF (isDescending /\ order >= 0) \/ (~isDescending /\ order < 0)
             THEN idx - 1
             ELSE RunLength(work, idx + 1, isDescending, cmp)

\* V8 ArrayTimSortImpl on an array shorter than the minimal run length
TimSortShort(list, cmp) ==
    IF Len(list) < 2 THEN list
    ELSE LET isDescending == cmp[<<list[2], list[1]>>] < 0
             run == RunLength(list, 3, isDescending, cmp)
             work == IF isDescending
                     THEN Reverse(SubSeq(list, 1, run)) \o SubSeq(list, run + 1, Len(list))
                     ELSE list
         IN  BinaryInsertionSort(work, run + 1, cmp)

\* SpiderMonkey InsertionSort: shift while comparefn(previous, item) > 0
LinearInsertPos(sorted, item, cmp) ==
    LET stop == {j \in 1..Len(sorted) : cmp[<<sorted[j], item>>] <= 0}
    IN  IF stop = {} THEN 1
        ELSE (CHOOSE j \in stop : \A k \in stop : k <= j) + 1

RECURSIVE LinearInsertionSort(_, _, _)
LinearInsertionSort(work, i, cmp) ==
    IF i > Len(work) THEN work
    ELSE LET item == work[i]
             pos == LinearInsertPos(SubSeq(work, 1, i - 1), item, cmp)
             moved == InsertAt(SubSeq(work, 1, i - 1), pos, item)
                          \o SubSeq(work, i + 1, Len(work))
         IN  LinearInsertionSort(moved, i + 1, cmp)

ArraySort(eng, list, cmp) ==
    IF eng = "binaryInsertion" THEN TimSortShort(list, cmp)
    ELSE LinearInsertionSort(list, 2, cmp)

-----------------------------------------------------------------------------
(* The View Projector of the two clients *)

\* src/script.js: (a, b) => new Date(b.createdAt || 0) - new Date(a.createdAt || 0)
byCreatedAtDesc(a, b) == b.createdAt - a.createdAt

\* the comparefn without its pinned branch
compareNotesIgnoringPinned(a, b) ==
    IF a.due_date # 0 /\ b.due_date # 0
    THEN DateMs(a.due_date) - DateMs(b.due_date)
    ELSE IF a.due_date # 0 THEN -1
    ELSE IF b.due_date # 0 THEN 1
    ELSE b.created_at - a.created_at

\* src/public/script.js: the comparefn of filteredNotes.sort
compareNotes(a, b) ==
    IF a.pinned # b.pinned
    THEN (IF Truthy(a.pinned) THEN -1 ELSE 1)
    ELSE IF a.due_date # 0 /\ b.due_date # 0
         THEN DateMs(a.due_date) - DateMs(b.due_date)
    ELSE IF a.due_date # 0 THEN -1
    ELSE IF b.due_date # 0 THEN 1
    ELSE b.created_at - a.created_at

\* the filter without toLowerCase
matchingCaseSensitive(notes, term) ==
    {n \in Range(notes) : includes(n.text, term)}

\* the filter of renderAllNotes, in both clients:
\* note => note.text.toLowerCase().includes(searchTerm.toLowerCase())
matching(notes, term) ==
    {n \in Range(notes) : includes(toLowerCase(n.text), toLowerCase(term))}

\* src/script.js renderAllNotes: the sequence handed to renderNote
projectLocal(eng, notes, term) ==
    LET filteredNotes == FilterSeq(notes, matching(notes, term))
        pinnedNotes == FilterSeq(filteredNotes, {n \in Range(filteredNotes) : Truthy(n.pinned)})
        unpinnedNotes == FilterSeq(filteredNotes, {n \in Range(filteredNotes) : ~Truthy(n.pinned)})
        cmp == [p \in Range(notes) \X Range(notes) |-> byCreatedAtDesc(p[1], p[2])]
    IN  ArraySort(eng, pinnedNotes, cmp) \o ArraySort(eng, unpinnedNotes, cmp)

\* src/public/script.js renderAllNotes: the sequence handed to renderNote
projectServer(eng, allNotes, term) ==
    LET filteredNotes == FilterSeq(allNotes, matching(allNotes, term))
        cmp == [p \in Range(allNotes) \X Range(allNotes) |-> compareNotes(p[1], p[2])]
    IN  ArraySort(eng, filteredNotes, cmp)

-----------------------------------------------------------------------------
(* The Note Store reads *)

\* src/script.js loadNotes: the parsed blob; JSON.parse throws when it does not parse
loadNotes == localStorage

\* src/server.js GET /api/notes: SELECT * FROM notes ORDER BY created_at DESC
RECURSIVE OrderByCreatedAtDesc(_)
OrderByCreatedAtDesc(rows) ==
    IF rows = {} THEN <<>>
    ELSE LET r == CHOOSE x \in rows : \A y \in rows : y.created_at <= x.created_at
         IN  <<r>> \o OrderByCreatedAtDesc(rows \ {r})

\* fetchNotes after the table became rows: [] when the GET fails
fetched(rows) == IF readable THEN OrderByCreatedAtDesc(rows) ELSE <<>>

\* src/public/script.js fetchNotes
fetchNotes == fetched(db)

\* list(): the notes of the store of the running variant, as a set
list == IF variant = "local" THEN Range(localStorage) ELSE db

\* renderAllNotes(term) of the running variant
rendering(term) ==
    IF variant = "local"
    THEN (IF readable THEN projectLocal(engine, loadNotes, term) ELSE <<>>)
    ELSE projectServer(engine, fetchNotes, term)

\* the store call of a read, and the history of a handler that only renders:
\* the local renderAllNotes clears the container and then throws out of loadNotes
Read == IF variant = "local" THEN "getItem" ELSE "GET"

Listed ==
    [NoOp EXCEPT !.op = "list", !.before = list,
                 !.status = IF variant = "local" THEN 0 ELSE IF readable THEN 200 ELSE 500,
                 !.rendered = (variant = "server" \/ readable),
                 !.threw = (variant = "local" /\ ~readable),
                 !.calls = <<Read>>]

-----------------------------------------------------------------------------
(* Notes as the two stores hold them *)

\* src/script.js addNote: newNote (id and createdAt are both the clock reading)
LocalNote(ts, text, pinned, dueDate) ==
    [id |-> ts, text |-> text, createdAt |-> ts, pinned |-> pinned, dueDate |-> dueDate]

\* a row of the notes table
Row(id, text, pinned, created_at, due_date, reminder_time) ==
    [id |-> id, text |-> text, pinned |-> pinned, created_at |-> created_at,
     due_date |-> due_date, reminder_time |-> reminder_time]

\* the elements of a set of numbers, ascending
RECURSIVE Ascending(_)
Ascending(S) ==
    IF S = {} THEN <<>>
    ELSE LET m == CHOOSE x \in S : \A y \in S : x <= y
         IN  <<m>> \o Ascending(S \ {m})

LocalAttrs == [text : Texts, pinned : {"true", "false"}, dueDate : {0} \cup DueDates]

RowAttrs == [text : Texts, pinned : {"true", "false", "null"}, due_date : {0} \cup DueDates]

-----------------------------------------------------------------------------
(* Rendering *)

Untouched == UNCHANGED <<variant, engine, clock, nextId, readable, colour, inflight>>

\* savingIndicator is transparent and no timer is pending
NoTimers == [tracked |-> TRUE, visible |-> FALSE, hide |-> 0, clear |-> 0]

\* the same page in the specifications that do not follow the single timers: there
\* hideSavingIndicator stands for all of them having fired
TimersElapse == [NoTimers EXCEPT !.tracked = FALSE]

\* showSavingIndicator(message) followed by setTimeout(hideSavingIndicator, delay), as
\* every caller does; shows is how many times the handler does it (the import of
\* src/script.js does it in saveNotes and once more itself)
showSavingIndicator(message, shows) ==
    /\ indicator' = message
    /\ IF timers.tracked
       THEN /\ timers.hide + shows <= MaxTimers
            /\ timers' = [timers EXCEPT !.visible = TRUE, !.hide = @ + shows]
       ELSE UNCHANGED timers

\* initializeApp on page load: renderAllNotes() with fresh page state
InitializeApp ==
    /\ displayed' = rendering(<<>>)
    /\ searchTerm' = <<>>
    /\ noteIdToDelete' = 0
    /\ modalActive' = FALSE
    /\ indicator' = ""
    /\ timers' = [NoTimers EXCEPT !.tracked = timers.tracked]
    /\ alerts' = ""
    /\ last' = Listed
    /\ UNCHANGED <<localStorage, db>>
    /\ Untouched

\* the 'input' listener of searchInput: renderAllNotes(searchInput.value)
SearchInput(term) ==
    /\ searchTerm' = term
    /\ displayed' = rendering(term)
    /\ alerts' = ""
    /\ last' = Listed
    /\ UNCHANGED <<localStorage, db, noteIdToDelete, modalActive, indicator, timers>>
    /\ Untouched

-----------------------------------------------------------------------------
(* The View Projector on arbitrary stores: every local array of at most    *)
(* MaxNotes notes created at distinct clock readings, in creation order    *)
(* (as addNote's push leaves it) or reversed (as an import can leave it),  *)
(* and every notes table of at most MaxNotes rows.                         *)

InitProj ==
    /\ variant \in {"local", "server"}
    /\ engine \in Engines
    /\ \E S \in SUBSET (1..MaxNotes) :
         /\ IF variant = "local"
            THEN /\ \E at \in [S -> LocalAttrs], reversed \in BOOLEAN :
                      LET ids == IF reversed THEN Reverse(Ascending(S)) ELSE Ascending(S)
                      IN  localStorage = [i \in 1..Len(ids) |->
                              LocalNote(ids[i], at[ids[i]].text, at[ids[i]].pinned,
                                        at[ids[i]].dueDate)]
                 /\ db = {}
            ELSE /\ localStorage = <<>>
                 /\ \E at \in [S -> RowAttrs] :
                      db = {Row(i, at[i].text, at[i].pinned, i, at[i].due_date, 0) : i \in S}
    /\ displayed = <<>>
    /\ searchTerm = <<>>
    /\ noteIdToDelete = 0
    /\ modalActive = FALSE
    /\ indicator = ""
    /\ alerts = ""
    /\ clock = MaxNotes
    /\ nextId = MaxNotes + 1
    /\ readable = TRUE
    /\ colour = NoColour
    /\ timers = TimersElapse
    /\ inflight = <<>>
    /\ last = NoOp

NextProj ==
    \/ InitializeApp
    \/ \E term \in Terms : SearchInput(term)

SpecProj == InitProj /\ [][NextProj]_vars

-----------------------------------------------------------------------------
(* The REST API, src/server.js, over the notes table                       *)
(*   CREATE TABLE notes (id SERIAL PRIMARY KEY, text TEXT NOT NULL,        *)
(*     pinned BOOLEAN DEFAULT FALSE, created_at TIMESTAMP WITH TIME ZONE   *)
(*     DEFAULT CURRENT_TIMESTAMP, due_date DATE)                           *)
(* A request body is a record holding the supplied keys only; a key that   *)
(* is not supplied destructures to undefined, which pg sends as NULL.      *)

\* POST /api/notes: the inserted row
postRow(body) == Row(nextId, body.text, "false", clock, body.due_date, body.reminder_time)

\* PUT /api/notes/:id: the response status
putStatus(id, body) ==
    IF {r \in db : r.id = id} = {} THEN 404
    ELSE IF "text" \notin DOMAIN body THEN 500
    ELSE 200

\* PUT /api/notes/:id: UPDATE notes SET text = $1, pinned = $2 WHERE id = $3
putRows(id, body) ==
    IF putStatus(id, body) # 200 THEN db
    ELSE {IF r.id = id
          THEN [r EXCEPT !.text = body.text,
                         !.pinned = IF "pinned" \in DOMAIN body THEN body.pinned ELSE "null"]
          ELSE r : r \in db}

\* DELETE /api/notes/:id: the response status
deleteStatus(id) == IF {r \in db : r.id = id} = {} THEN 404 ELSE 204

\* DELETE /api/notes/:id: DELETE FROM notes WHERE id = $1
deleteRows(id) == {r \in db : r.id # id}

-----------------------------------------------------------------------------
(* src/script.js: the local-storage client *)

\* notes.findIndex(note => note.id === id), 0 for -1
findIndex(notes, id) ==
    IF \E i \in DOMAIN notes : notes[i].id = id
    THEN CHOOSE i \in DOMAIN notes :
            notes[i].id = id /\ \A j \in DOMAIN notes : notes[j].id = id => i <= j
    ELSE 0

\* { ...note, ...updates }
merge(note, updates) ==
    [f \in DOMAIN note \cup DOMAIN updates |->
        IF f \in DOMAIN updates THEN updates[f] ELSE note[f]]

\* history record of a handler that called the store: the call, the notes before it,
\* the HTTP status (0 when there is none), whether the handler went on to
\* showSavingIndicator and renderAllNotes, and the store calls it issued
Called(op, id, updates, status, succeeded, calls) ==
    [op |-> op, id |-> id, updates |-> updates, before |-> list, status |-> status,
     notified |-> succeeded, rendered |-> succeeded, threw |-> FALSE, calls |-> calls]

\* history record of a local handler whose loadNotes threw
Thrown(op, id, updates) ==
    [NoOp EXCEPT !.op = op, !.id = id, !.updates = updates, !.before = list,
                 !.threw = TRUE, !.calls = <<"getItem">>]

\* addNote
addNoteLocal(raw, dueDate) ==
    /\ variant = "local"
    /\ Len(localStorage) < MaxStored
    /\ LET noteText == trim(raw)
           newNote == LocalNote(clock, noteText, "false", dueDate)
           notes == Append(loadNotes, newNote)
       IN  IF noteText = <<>>
           THEN /\ last' = [NoOp EXCEPT !.op = "create", !.updates = [text |-> raw],
                                        !.before = list]
                /\ alerts' = ""
                /\ UNCHANGED <<localStorage, displayed, indicator, timers>>
           ELSE IF ~readable
           THEN /\ last' = Thrown("create", 0, [text |-> raw])
                /\ alerts' = ""
                /\ UNCHANGED <<localStorage, displayed, indicator, timers>>
           ELSE /\ localStorage' = notes
                /\ showSavingIndicator("Saved!", 1)
                /\ displayed' = projectLocal(engine, notes, searchTerm)
                /\ alerts' = ""
                /\ last' = Called("create", newNote.id, [text |-> raw], 0, TRUE,
                                  <<"getItem", "setItem", "getItem">>)
    /\ UNCHANGED <<db, searchTerm, noteIdToDelete, modalActive>>
    /\ Untouched

\* updateNoteContent(id, updates)
updateNoteContentLocal(id, updates) ==
    LET notes == loadNotes
        noteIndex == findIndex(notes, id)
        saved == [notes EXCEPT ![noteIndex] = merge(@, updates)]
    IN  /\ IF ~readable
           THEN /\ last' = Thrown("update", id, updates)
                /\ UNCHANGED <<localStorage, indicator, timers, displayed>>
           ELSE IF noteIndex # 0
           THEN /\ localStorage' = saved
                /\ showSavingIndicator("Saved!", 1)
                /\ displayed' = projectLocal(engine, saved, searchTerm)
                /\ last' = Called("update", id, updates, 0, TRUE,
                                  <<"getItem", "setItem", "getItem">>)
           ELSE /\ last' = Called("update", id, updates, 0, FALSE, <<"getItem">>)
                /\ UNCHANGED <<localStorage, indicator, timers, displayed>>
        /\ alerts' = ""
        /\ UNCHANGED <<db, searchTerm, noteIdToDelete, modalActive>>
        /\ Untouched

\* the 'blur' listener of a rendered note's text
blurLocal(i, raw) ==
    /\ variant = "local"
    /\ i \in DOMAIN displayed
    /\ LET note == displayed[i]
           newText == trim(raw)
       IN  /\ newText # note.text
           /\ updateNoteContentLocal(note.id, [text |-> newText])

\* togglePinNote(id), from the 'click' listener of a rendered note's pin button
togglePinNoteLocal(i) ==
    /\ variant = "local"
    /\ i \in DOMAIN displayed
    /\ LET id == displayed[i].id
           notes == loadNotes
           noteIndex == findIndex(notes, id)
       IN  IF readable /\ noteIndex # 0
           THEN updateNoteContentLocal(id, [pinned |-> Negate(notes[noteIndex].pinned)])
           ELSE /\ last' = IF readable
                           THEN [NoOp EXCEPT !.op = "toggle", !.id = id, !.before = list,
                                             !.calls = <<"getItem">>]
                           ELSE Thrown("toggle", id, <<>>)
                /\ alerts' = ""
                /\ UNCHANGED <<localStorage, db, displayed, searchTerm, noteIdToDelete,
                               modalActive, indicator, timers>>
                /\ Untouched

\* the 'click' listener of confirmDeleteBtn: deleteNote(noteIdToDelete) if there is one
confirmDeleteLocal ==
    /\ variant = "local"
    /\ LET id == noteIdToDelete
           notes == FilterSeq(loadNotes, {n \in Range(loadNotes) : n.id # id})
       IN  IF id = 0
           THEN /\ last' = [NoOp EXCEPT !.op = "confirm"]
                /\ alerts' = ""
                /\ UNCHANGED <<localStorage, indicator, timers, noteIdToDelete, modalActive, displayed>>
           ELSE IF ~readable
           THEN /\ last' = Thrown("delete", id, <<>>)
                /\ alerts' = ""
                /\ UNCHANGED <<localStorage, indicator, timers, noteIdToDelete, modalActive, displayed>>
           ELSE /\ localStorage' = notes
                /\ showSavingIndicator("Saved!", 1)
                /\ noteIdToDelete' = 0
                /\ modalActive' = FALSE
                /\ displayed' = projectLocal(engine, notes, searchTerm)
                /\ alerts' = ""
                /\ last' = Called("delete", id, <<>>, 0, TRUE,
                                  <<"getItem", "setItem", "getItem">>)
    /\ UNCHANGED <<db, searchTerm>>
    /\ Untouched

\* deleteNote(id) run by another tab of the same origin on the shared localStorage
otherTabDeleteNote(id) ==
    /\ variant = "local"
    /\ \E n \in Range(localStorage) : n.id = id
    /\ localStorage' = FilterSeq(loadNotes, {n \in Range(loadNotes) : n.id # id})
    /\ last' = NoOp
    /\ alerts' = ""
    /\ UNCHANGED <<db, displayed, searchTerm, noteIdToDelete, modalActive, indicator, timers>>
    /\ Untouched

-----------------------------------------------------------------------------
(* src/public/script.js: the server-backed client.  net is whether the     *)
(* write request reaches the server and its response the client; the GET   *)
(* of the render that follows is answered when the API is readable.        *)

\* addNote
addNoteServer(raw, dueDate, reminderTime, net) ==
    /\ variant = "server"
    /\ Cardinality(db) < MaxStored
    /\ nextId <= MaxClock
    /\ LET noteText == trim(raw)
           newNote == [text |-> noteText, due_date |-> dueDate, reminder_time |-> reminderTime]
           rows == db \cup {postRow(newNote)}
       IN  IF noteText = <<>>
           THEN /\ last' = [NoOp EXCEPT !.op = "create", !.updates = [text |-> raw],
                                        !.before = list]
                /\ alerts' = ""
                /\ UNCHANGED <<db, displayed, indicator, timers, clock, nextId>>
           ELSE IF net
           THEN /\ db' = rows
                /\ nextId' = nextId + 1
                /\ clock' = clock + 1
                /\ showSavingIndicator("Note added!", 1)
                /\ displayed' = projectServer(engine, fetched(rows), searchTerm)
                /\ alerts' = ""
                /\ last' = Called("create", nextId, [text |-> raw], 201, TRUE,
                                  <<"POST", "GET">>)
           ELSE /\ alerts' = "Failed to add note. Please try again."
                /\ last' = Called("create", 0, [text |-> raw], 0, FALSE, <<"POST">>)
                /\ UNCHANGED <<db, displayed, indicator, timers, clock, nextId>>
    /\ UNCHANGED <<variant, engine, readable, colour, inflight, localStorage, searchTerm,
                   noteIdToDelete, modalActive>>

\* updateNoteContent(id, updates)
updateNoteContentServer(id, updates, net) ==
    LET status == IF net THEN putStatus(id, updates) ELSE 0
        rows == IF net THEN putRows(id, updates) ELSE db
    IN  /\ db' = rows
        /\ IF status = 200
           THEN /\ showSavingIndicator("Note updated!", 1)
                /\ displayed' = projectServer(engine, fetched(rows), searchTerm)
                /\ alerts' = ""
                /\ last' = Called("update", id, updates, status, TRUE, <<"PUT", "GET">>)
           ELSE /\ alerts' = "Failed to update note. Please try again."
                /\ last' = Called("update", id, updates, status, FALSE, <<"PUT">>)
                /\ UNCHANGED <<indicator, timers, displayed>>
        /\ UNCHANGED <<localStorage, searchTerm, noteIdToDelete, modalActive>>
        /\ Untouched

\* the 'blur' listener of a rendered note's text
blurServer(i, raw, net) ==
    /\ variant = "server"
    /\ i \in DOMAIN displayed
    /\ LET note == displayed[i]
           newText == trim(raw)
       IN  /\ newText # note.text
           /\ updateNoteContentServer(note.id, [text |-> newText], net)

\* togglePinNote(id, currentPinnedStatus), from the 'click' listener of a rendered
\* note's pin button, which passes the rendered note.pinned
togglePinNoteServer(i, net) ==
    /\ variant = "server"
    /\ i \in DOMAIN displayed
    /\ updateNoteContentServer(displayed[i].id, [pinned |-> Negate(displayed[i].pinned)], net)

\* the 'click' listener of confirmDeleteBtn: deleteNote(noteIdToDelete) if there is one
confirmDeleteServer(net) ==
    /\ variant = "server"
    /\ LET id == noteIdToDelete
           status == IF net THEN deleteStatus(id) ELSE 0
           rows == IF net THEN deleteRows(id) ELSE db
       IN  IF id = 0
           THEN /\ last' = [NoOp EXCEPT !.op = "confirm"]
                /\ alerts' = ""
                /\ UNCHANGED <<db, indicator, timers, displayed, noteIdToDelete, modalActive>>
           ELSE /\ db' = rows
                /\ IF status = 204
                   THEN /\ showSavingIndicator("Note deleted!", 1)
                        /\ displayed' = projectServer(engine, fetched(rows), searchTerm)
                        /\ alerts' = ""
                        /\ last' = Called("delete", id, <<>>, status, TRUE,
                                          <<"DELETE", "GET">>)
                   ELSE /\ alerts' = "Failed to delete note. Please try again."
                        /\ last' = Called("delete", id, <<>>, status, FALSE, <<"DELETE">>)
                        /\ UNCHANGED <<indicator, timers, displayed>>
                /\ noteIdToDelete' = 0
                /\ modalActive' = FALSE
    /\ UNCHANGED <<localStorage, searchTerm>>
    /\ Untouched

\* a DELETE /api/notes/:id sent by another client of the same server
otherClientDeleteNote(id) ==
    /\ variant = "server"
    /\ deleteStatus(id) = 204
    /\ db' = deleteRows(id)
    /\ last' = NoOp
    /\ alerts' = ""
    /\ UNCHANGED <<localStorage, displayed, searchTerm, noteIdToDelete, modalActive, indicator, timers>>
    /\ Untouched

-----------------------------------------------------------------------------
(* src/public/script.js getNoteColorClass, called by renderNote with the    *)
(* due_date and reminder_time of a note of GET /api/notes.  A date string   *)
(* is [format, day]; a JavaScript Date is [valid, time], valid FALSE for    *)
(* Invalid Date (time NaN: every < and === on it is false).                 *)

\* noteDueDateInput.value, sent in the body of POST /api/notes: "YYYY-MM-DD"
dateString(day) == [format |-> "date", day |-> day]

\* a DATE column in the JSON of GET /api/notes: pg parses it into a Date and
\* res.json writes date.toISOString(), "YYYY-MM-DDTHH:mm:ss.sssZ"
jsonOfDate(day) == [format |-> "timestamp", day |-> day]

\* note.due_date as renderNote receives it
dueDateOnTheWire(day, column) ==
    IF day = 0 THEN [format |-> "null", day |-> 0]
    ELSE IF column = "DATE" THEN jsonOfDate(day)
    ELSE dateString(day)

\* the column types of notes.due_date: DATE in the README's CREATE TABLE; a text
\* column returns the string that was posted
DueDateColumns == {"DATE", "TEXT"}

JsDate(time) == [valid |-> TRUE, time |-> time]

\* new Date(dueDateString + 'T00:00:00'): local midnight of a "YYYY-MM-DD" string,
\* Invalid Date for a string that already ends in a time
parseAtMidnight(s) ==
    IF s.format = "date" THEN JsDate(DateMs(s.day)) ELSE [valid |-> FALSE, time |-> 0]

\* d < e on Dates
Before(d, e) == d.valid /\ e.valid /\ d.time < e.time

\* d.getTime() === e.getTime()
SameTime(d, e) == d.valid /\ e.valid /\ d.time = e.time

\* minutes after midnight, in milliseconds
MinuteMs(m) == m * 60000

\* getNoteColorClass(dueDateString, reminderTime) called on day nowDay at nowMinute
getNoteColorClass(dueDateString, reminderTime, nowDay, nowMinute) ==
    IF dueDateString.format = "null" THEN "color-default"
    ELSE LET now == JsDate(DateMs(nowDay) + MinuteMs(nowMinute))
             today == JsDate(DateMs(nowDay))
             dueDate == parseAtMidnight(dueDateString)
             tomorrow == JsDate(DateMs(nowDay + 1))
             isToday == SameTime(dueDate, today)
             isOverdue == Before(dueDate, today)
             isDueTodayButLate ==
                 IF isToday /\ reminderTime # 0
                 THEN Before(JsDate(DateMs(nowDay) + MinuteMs(reminderTime)), now)
                 ELSE FALSE
         IN  IF isOverdue \/ isDueTodayButLate THEN "color-overdue"
             ELSE IF isToday THEN "color-due-today"
             ELSE IF SameTime(dueDate, tomorrow) THEN "color-due-tomorrow"
             ELSE "color-default"

\* renderNote: the colour class of a note whose due date is day
renderNote(day, reminderTime, column, nowDay, nowMinute) ==
    /\ variant = "server"
    /\ LET due_date == dueDateOnTheWire(day, column)
       IN  colour' = [due_date |-> due_date, reminder_time |-> reminderTime,
                      today |-> nowDay, minute |-> nowMinute,
                      class |-> getNoteColorClass(due_date, reminderTime, nowDay, nowMinute)]
    /\ UNCHANGED <<variant, engine, localStorage, db, displayed, searchTerm, noteIdToDelete,
                   modalActive, indicator, timers, inflight, alerts, clock, nextId, readable, last>>

-----------------------------------------------------------------------------
(* Import: the 'change' listener of importNotesInput, reader.onload.        *)
(* A file is [parses, isArray, elems]: whether JSON.parse accepts it,       *)
(* whether the value is an array, and its elements.  An element is a JSON   *)
(* value [type, hasId, hasText, note]: note holds the fields of an object.  *)

Element(type, hasId, hasText, note) ==
    [type |-> type, hasId |-> hasId, hasText |-> hasText, note |-> note]

\* a note object as exportNotes wrote it
NoteElement(id, text) == Element("object", TRUE, TRUE, LocalNote(id, text, "false", 0))

ImportElements ==
    {NoteElement(id, <<"b">>) : id \in ImportIds}
        \cup {NoteElement(1, <<>>),
              Element("null", FALSE, FALSE, LocalNote(0, <<>>, "false", 0)),
              Element("number", FALSE, FALSE, LocalNote(0, <<>>, "false", 0)),
              Element("object", FALSE, TRUE, LocalNote(0, <<"b">>, "false", 0)),
              Element("object", TRUE, FALSE, LocalNote(2, <<>>, "false", 0))}

File(parses, isArray, elems) == [parses |-> parses, isArray |-> isArray, elems |-> elems]

Files ==
    {File(FALSE, FALSE, <<>>), File(TRUE, FALSE, <<>>)}
        \cup {File(TRUE, TRUE, elems) :
                elems \in UNION {[1..n -> ImportElements] : n \in 0..MaxImport}}

\* typeof
typeOf(e) == IF e.type = "null" THEN "object" ELSE e.type

\* the validation without the 'text' in note test
isImportableIgnoringText(file) ==
    /\ file.isArray
    /\ \A i \in DOMAIN file.elems :
         LET note == file.elems[i]
         IN  typeOf(note) = "object" /\ note.type # "null" /\ note.hasId

\* Array.isArray(importedNotes) && importedNotes.every(note => typeof note === 'object'
\*   && note !== null && 'id' in note && 'text' in note)
isImportable(file) ==
    /\ file.isArray
    /\ \A i \in DOMAIN file.elems :
         LET note == file.elems[i]
         IN  typeOf(note) = "object" /\ note.type # "null" /\ note.hasId /\ note.hasText

\* the parsed array
importedNotesOf(file) == [i \in DOMAIN file.elems |-> file.elems[i].note]

\* the merge branch: [...currentNotes, ...newNotesToAdd]
mergeNotes(currentNotes, importedNotes) ==
    LET existingNoteIds == {currentNotes[i].id : i \in DOMAIN currentNotes}
        newNotesToAdd == FilterSeq(importedNotes,
                                   {n \in Range(importedNotes) : n.id \notin existingNoteIds})
    IN  currentNotes \o newNotesToAdd

finalNotesOf(currentNotes, importedNotes, mergeOption) ==
    IF mergeOption THEN mergeNotes(currentNotes, importedNotes) ELSE importedNotes

\* history record of an import: the file, the answer to confirm(), whether confirm()
\* was shown
Imported(file, mergeOption, asked, succeeded, calls) ==
    [NoOp EXCEPT !.op = "import",
                 !.updates = [file |-> file, merge |-> mergeOption, asked |-> asked],
                 !.before = list, !.notified = succeeded, !.rendered = succeeded,
                 !.calls = calls]

\* src/script.js reader.onload
importLocal(file, mergeOption) ==
    /\ variant = "local"
    /\ LET finalNotes == finalNotesOf(loadNotes, importedNotesOf(file), mergeOption)
       IN  IF ~file.parses
           THEN /\ alerts' = "Failed to import notes. Please ensure the file is a valid JSON format."
                /\ last' = Imported(file, mergeOption, FALSE, FALSE, <<>>)
                /\ UNCHANGED <<localStorage, displayed, indicator, timers>>
           ELSE IF ~isImportable(file)
           THEN /\ alerts' = "Invalid JSON file format. Please select a valid ProNotes export file."
                /\ last' = Imported(file, mergeOption, FALSE, FALSE, <<>>)
                /\ UNCHANGED <<localStorage, displayed, indicator, timers>>
           ELSE IF ~readable
           THEN /\ alerts' = "Failed to import notes. Please ensure the file is a valid JSON format."
                /\ last' = Imported(file, mergeOption, FALSE, FALSE, <<"getItem">>)
                /\ UNCHANGED <<localStorage, displayed, indicator, timers>>
           ELSE /\ localStorage' = finalNotes
                /\ displayed' = projectLocal(engine, finalNotes, searchTerm)
                /\ alerts' = "Successfully imported notes!"
                /\ showSavingIndicator("Notes Imported!", 2)
                /\ last' = Imported(file, mergeOption, TRUE, TRUE,
                                    <<"getItem", "setItem", "getItem">>)
    /\ UNCHANGED <<db, searchTerm, noteIdToDelete, modalActive>>
    /\ Untouched

\* src/public/script.js reader.onload: the notes go to localStorage, the render
\* that follows shows what GET /api/notes returns
importServer(file, mergeOption) ==
    /\ variant = "server"
    /\ LET finalNotes == finalNotesOf(localStorage, importedNotesOf(file), mergeOption)
       IN  IF ~file.parses
           THEN /\ alerts' = "Failed to import notes. Please ensure the file is a valid JSON format."
                /\ last' = Imported(file, mergeOption, FALSE, FALSE, <<>>)
                /\ UNCHANGED <<localStorage, displayed, indicator, timers>>
           ELSE IF ~isImportable(file)
           THEN /\ alerts' = "Invalid JSON file format. Please select a valid ProNotes export file."
                /\ last' = Imported(file, mergeOption, FALSE, FALSE, <<>>)
                /\ UNCHANGED <<localStorage, displayed, indicator, timers>>
           ELSE /\ localStorage' = finalNotes
                /\ displayed' = projectServer(engine, fetchNotes, searchTerm)
                /\ alerts' = "Successfully imported notes!"
                /\ showSavingIndicator("Notes Imported!", 1)
                /\ last' = Imported(file, mergeOption, TRUE, TRUE, <<"setItem", "GET">>)
    /\ UNCHANGED <<db, searchTerm, noteIdToDelete, modalActive>>
    /\ Untouched

-----------------------------------------------------------------------------
(* Export: exportNotes, the 'click' listener of exportNotesBtn.  The notes  *)
(* it serialises are values JSON.parse returned, so JSON.stringify writes    *)
(* every field of every note and the snapshot is given as the array itself. *)

\* history record of an export: whether a file was downloaded, and its notes
Exported(produced, snapshot) ==
    [NoOp EXCEPT !.op = "export",
                 !.updates = [produced |-> produced, snapshot |-> snapshot],
                 !.before = list, !.notified = produced, !.calls = <<"getItem">>]

\* exportNotes on the array notes
exportNotes(notes) ==
    /\ IF Len(notes) = 0
       THEN /\ alerts' = "No notes to export!"
            /\ last' = Exported(FALSE, <<>>)
            /\ UNCHANGED <<indicator, timers>>
       ELSE /\ showSavingIndicator("Notes Exported!", 1)
            /\ alerts' = ""
            /\ last' = Exported(TRUE, notes)
    /\ UNCHANGED <<localStorage, db, displayed, searchTerm, noteIdToDelete, modalActive>>
    /\ Untouched

\* src/script.js exportNotes: notes = loadNotes()
exportNotesLocal ==
    /\ variant = "local"
    /\ IF readable
       THEN exportNotes(loadNotes)
       ELSE /\ last' = Thrown("export", 0, <<>>)
            /\ alerts' = ""
            /\ UNCHANGED <<localStorage, db, displayed, searchTerm, noteIdToDelete,
                           modalActive, indicator, timers>>
            /\ Untouched

\* src/public/script.js exportNotes:
\* notes = JSON.parse(localStorage.getItem('stickyNotesApp.notes') || '[]')
exportNotesServer ==
    /\ variant = "server"
    /\ exportNotes(localStorage)

-----------------------------------------------------------------------------
(* Handlers the two clients share *)

\* showConfirmModal(note.id), from the 'click' listener of a rendered note's delete button
showConfirmModal(i) ==
    /\ i \in DOMAIN displayed
    /\ noteIdToDelete' = displayed[i].id
    /\ modalActive' = TRUE
    /\ alerts' = ""
    /\ last' = NoOp
    /\ UNCHANGED <<localStorage, db, displayed, searchTerm, indicator, timers>>
    /\ Untouched

\* a cancel that hides the modal and keeps the pending id
hideConfirmModalKeepingId ==
    /\ modalActive
    /\ modalActive' = FALSE
    /\ alerts' = ""
    /\ last' = NoOp
    /\ UNCHANGED <<localStorage, db, displayed, searchTerm, indicator, timers, noteIdToDelete>>
    /\ Untouched

\* hideConfirmModal, from the 'click' listeners of cancelDeleteBtn and of the modal backdrop
hideConfirmModal ==
    /\ modalActive
    /\ noteIdToDelete' = 0
    /\ modalActive' = FALSE
    /\ alerts' = ""
    /\ last' = NoOp
    /\ UNCHANGED <<localStorage, db, displayed, searchTerm, indicator, timers>>
    /\ Untouched

\* a hideSavingIndicator that sets no timer to clear the text
hideTimerFiresWithoutClear ==
    /\ timers.hide > 0
    /\ timers' = [timers EXCEPT !.visible = FALSE, !.hide = @ - 1]
    /\ UNCHANGED <<localStorage, db, displayed, searchTerm, noteIdToDelete, modalActive,
                   indicator, alerts, last>>
    /\ Untouched

\* a timer set by setTimeout(hideSavingIndicator, delay) fires: hideSavingIndicator
\* makes the indicator transparent and sets the timer that clears its text
hideTimerFires ==
    /\ timers.hide > 0
    /\ timers.clear < MaxTimers
    /\ timers' = [timers EXCEPT !.visible = FALSE, !.hide = @ - 1, !.clear = @ + 1]
    /\ UNCHANGED <<localStorage, db, displayed, searchTerm, noteIdToDelete, modalActive,
                   indicator, alerts, last>>
    /\ Untouched

\* the timer set by hideSavingIndicator fires: savingIndicator.textContent = ''
clearTimerFires ==
    /\ timers.clear > 0
    /\ indicator' = ""
    /\ timers' = [timers EXCEPT !.clear = @ - 1]
    /\ UNCHANGED <<localStorage, db, displayed, searchTerm, noteIdToDelete, modalActive,
                   alerts, last>>
    /\ Untouched

\* every pending hide timer and the clear timers they set have fired
hideSavingIndicator ==
    /\ indicator # ""
    /\ indicator' = ""
    /\ timers' = [NoTimers EXCEPT !.tracked = timers.tracked]
    /\ UNCHANGED <<localStorage, db, displayed, searchTerm, noteIdToDelete, modalActive,
                   alerts, last>>
    /\ Untouched

\* the wall clock advances between two handlers
Tick ==
    /\ variant = "local"
    /\ clock < MaxClock
    /\ clock' = clock + 1
    /\ UNCHANGED <<variant, engine, nextId, readable, colour, inflight, localStorage, db, displayed,
                   searchTerm, noteIdToDelete, modalActive, indicator, timers, alerts, last>>

\* another script of the origin (or the user, in the developer tools) leaves under
\* 'stickyNotesApp.notes' a string that JSON.parse rejects
blobCorrupted ==
    /\ variant = "local"
    /\ readable
    /\ readable' = FALSE
    /\ localStorage' = <<>>
    /\ last' = NoOp
    /\ alerts' = ""
    /\ UNCHANGED <<variant, engine, clock, nextId, colour, inflight, db, displayed, searchTerm,
                   noteIdToDelete, modalActive, indicator, timers>>

\* the API becomes unreachable or starts answering GET /api/notes with a non-OK status
apiDown ==
    /\ variant = "server"
    /\ readable
    /\ readable' = FALSE
    /\ last' = NoOp
    /\ alerts' = ""
    /\ UNCHANGED <<variant, engine, clock, nextId, colour, inflight, localStorage, db, displayed,
                   searchTerm, noteIdToDelete, modalActive, indicator, timers>>

\* the API answers again
apiUp ==
    /\ variant = "server"
    /\ ~readable
    /\ readable' = TRUE
    /\ last' = NoOp
    /\ alerts' = ""
    /\ UNCHANGED <<variant, engine, clock, nextId, colour, inflight, localStorage, db, displayed,
                   searchTerm, noteIdToDelete, modalActive, indicator, timers>>

-----------------------------------------------------------------------------
(* src/public/script.js handler by handler around each await: a handler     *)
(* sends its request and returns to the event loop, and runs on when the    *)
(* response arrives.  inflight holds the requests sent and not yet answered *)
(* in the order they were sent; the server handles a request when it        *)
(* answers it, and responses arrive in any order.                           *)

\* the fetch of fetchNotes in renderAllNotes(term); deleting is the id of the
\* deleteNote call that awaits this render, 0 for none
Get(term, deleting) == [kind |-> "GET", id |-> 0, body |-> <<>>, term |-> term,
                        deleting |-> deleting]

\* the fetch of updateNoteContent(id, updates)
Put(id, updates) == [kind |-> "PUT", id |-> id, body |-> updates, term |-> <<>>,
                     deleting |-> 0]

\* the fetch of deleteNote(id)
Delete(id) == [kind |-> "DELETE", id |-> id, body |-> <<>>, term |-> <<>>, deleting |-> id]

RemoveAt(seq, k) == [i \in 1..(Len(seq) - 1) |-> IF i < k THEN seq[i] ELSE seq[i + 1]]

\* addNote run while no request is in flight, its POST and the GET of its render
\* answered before another handler runs
addNoteWhenIdle(raw) ==
    /\ inflight = <<>>
    /\ addNoteServer(raw, 0, 0, TRUE)

\* the 'input' listener of searchInput: renderAllNotes(searchInput.value) up to its
\* await, notesContainer.innerHTML = '' and the fetch sent
searchInputStarts(term) ==
    /\ variant = "server"
    /\ Len(inflight) < MaxInflight
    /\ searchTerm' = term
    /\ displayed' = <<>>
    /\ inflight' = Append(inflight, Get(term, 0))
    /\ alerts' = ""
    /\ last' = NoOp
    /\ UNCHANGED <<variant, engine, clock, nextId, readable, colour, localStorage, db,
                   noteIdToDelete, modalActive, indicator, timers>>

\* the response of a fetchNotes arrives: renderAllNotes filters, sorts and appends the
\* notes to notesContainer, and a deleteNote that awaited it runs its finally block
getResolves(k) ==
    /\ variant = "server"
    /\ k \in DOMAIN inflight
    /\ inflight[k].kind = "GET"
    /\ displayed' = displayed \o projectServer(engine, fetchNotes, inflight[k].term)
    /\ inflight' = RemoveAt(inflight, k)
    /\ IF inflight[k].deleting # 0
       THEN noteIdToDelete' = 0 /\ modalActive' = FALSE
       ELSE UNCHANGED <<noteIdToDelete, modalActive>>
    /\ last' = Listed
    /\ UNCHANGED <<variant, engine, clock, nextId, readable, colour, localStorage, db,
                   searchTerm, indicator, timers, alerts>>

\* the 'click' listener of a rendered note's pin button up to the await of
\* updateNoteContent: togglePinNote(note.id, note.pinned) with the rendered note
pinClickStarts(i) ==
    /\ variant = "server"
    /\ i \in DOMAIN displayed
    /\ Len(inflight) < MaxInflight
    /\ inflight' = Append(inflight,
                          Put(displayed[i].id, [pinned |-> Negate(displayed[i].pinned)]))
    /\ alerts' = ""
    /\ last' = NoOp
    /\ UNCHANGED <<variant, engine, clock, nextId, readable, colour, localStorage, db,
                   displayed, searchTerm, noteIdToDelete, modalActive, indicator, timers>>

\* the 'blur' listener of a rendered note's text up to the await of updateNoteContent
blurStarts(i, raw) ==
    /\ variant = "server"
    /\ i \in DOMAIN displayed
    /\ Len(inflight) < MaxInflight
    /\ trim(raw) # displayed[i].text
    /\ inflight' = Append(inflight, Put(displayed[i].id, [text |-> trim(raw)]))
    /\ alerts' = ""
    /\ last' = NoOp
    /\ UNCHANGED <<variant, engine, clock, nextId, readable, colour, localStorage, db,
                   displayed, searchTerm, noteIdToDelete, modalActive, indicator, timers>>

\* the response of a PUT arrives: updateNoteContent after its first await
putResolves(k) ==
    /\ variant = "server"
    /\ k \in DOMAIN inflight
    /\ inflight[k].kind = "PUT"
    /\ LET id == inflight[k].id
           updates == inflight[k].body
           status == putStatus(id, updates)
       IN  /\ db' = putRows(id, updates)
           /\ IF status = 200
              THEN /\ showSavingIndicator("Note updated!", 1)
                   /\ displayed' = <<>>
                   /\ inflight' = Append(RemoveAt(inflight, k), Get(searchTerm, 0))
                   /\ alerts' = ""
                   /\ last' = Called("update", id, updates, status, TRUE, <<"PUT">>)
              ELSE /\ alerts' = "Failed to update note. Please try again."
                   /\ inflight' = RemoveAt(inflight, k)
                   /\ last' = Called("update", id, updates, status, FALSE, <<"PUT">>)
                   /\ UNCHANGED <<indicator, timers, displayed>>
    /\ UNCHANGED <<variant, engine, clock, nextId, readable, colour, localStorage,
                   searchTerm, noteIdToDelete, modalActive>>

\* the 'click' listener of confirmDeleteBtn up to the await of deleteNote(noteIdToDelete)
confirmDeleteStarts ==
    /\ variant = "server"
    /\ noteIdToDelete # 0
    /\ Len(inflight) < MaxInflight
    /\ inflight' = Append(inflight, Delete(noteIdToDelete))
    /\ alerts' = ""
    /\ last' = NoOp
    /\ UNCHANGED <<variant, engine, clock, nextId, readable, colour, localStorage, db,
                   displayed, searchTerm, noteIdToDelete, modalActive, indicator, timers>>

\* the response of a DELETE arrives: deleteNote after its first await, up to the await
\* of its render when the response is OK, through catch and finally when it is not
deleteResolves(k) ==
    /\ variant = "server"
    /\ k \in DOMAIN inflight
    /\ inflight[k].kind = "DELETE"
    /\ LET id == inflight[k].id
           status == deleteStatus(id)
       IN  /\ db' = deleteRows(id)
           /\ IF status = 204
              THEN /\ showSavingIndicator("Note deleted!", 1)
                   /\ displayed' = <<>>
                   /\ inflight' = Append(RemoveAt(inflight, k), Get(searchTerm, id))
                   /\ alerts' = ""
                   /\ last' = Called("delete", id, <<>>, status, TRUE, <<"DELETE">>)
                   /\ UNCHANGED <<noteIdToDelete, modalActive>>
              ELSE /\ alerts' = "Failed to delete note. Please try again."
                   /\ inflight' = RemoveAt(inflight, k)
                   /\ last' = Called("delete", id, <<>>, status, FALSE, <<"DELETE">>)
                   /\ noteIdToDelete' = 0
                   /\ modalActive' = FALSE
                   /\ UNCHANGED <<indicator, timers, displayed>>
    /\ UNCHANGED <<variant, engine, clock, nextId, readable, colour, localStorage,
                   searchTerm>>

-----------------------------------------------------------------------------
(* The application: either client, started on an empty store *)

InitPage ==
    /\ variant \in {"local", "server"}
    /\ engine \in Engines
    /\ localStorage = <<>>
    /\ db = {}
    /\ displayed = <<>>
    /\ searchTerm = <<>>
    /\ noteIdToDelete = 0
    /\ modalActive = FALSE
    /\ indicator = ""
    /\ alerts = ""
    /\ clock = 1
    /\ nextId = 1
    /\ readable = TRUE
    /\ colour = NoColour
    /\ inflight = <<>>
    /\ last = NoOp

Init == InitPage /\ timers = TimersElapse

Next ==
    \/ InitializeApp
    \/ \E term \in Terms : SearchInput(term)
    \/ \E raw \in Inputs, dueDate \in DueInputs : addNoteLocal(raw, dueDate)
    \/ \E i \in 1..MaxStored, raw \in Inputs : blurLocal(i, raw)
    \/ \E i \in 1..MaxStored : togglePinNoteLocal(i)
    \/ confirmDeleteLocal
    \/ \E id \in 1..MaxClock : otherTabDeleteNote(id)
    \/ \E raw \in Inputs, dueDate \in DueInputs, reminderTime \in ReminderTimes,
          net \in BOOLEAN : addNoteServer(raw, dueDate, reminderTime, net)
    \/ \E i \in 1..MaxStored, raw \in Inputs, net \in BOOLEAN : blurServer(i, raw, net)
    \/ \E i \in 1..MaxStored, net \in BOOLEAN : togglePinNoteServer(i, net)
    \/ \E net \in BOOLEAN : confirmDeleteServer(net)
    \/ \E id \in 1..MaxStored : otherClientDeleteNote(id)
    \/ \E i \in 1..MaxStored : showConfirmModal(i)
    \/ hideConfirmModal
    \/ hideSavingIndicator
    \/ Tick

Spec == Init /\ [][Next]_vars

\* the application with its import button: notes are created, then files imported
NextImport ==
    \/ addNoteLocal(<<"A", "b">>, 0)
    \/ addNoteServer(<<"A", "b">>, 0, 0, TRUE)
    \/ \E file \in Files, mergeOption \in BOOLEAN : importLocal(file, mergeOption)
    \/ \E file \in Files, mergeOption \in BOOLEAN : importServer(file, mergeOption)
    \/ Tick

SpecImport == Init /\ [][NextImport]_vars

\* the application on a backing medium that can fail
NextFail ==
    \/ InitializeApp
    \/ \E term \in Terms : SearchInput(term)
    \/ addNoteLocal(<<"A", "b">>, 0)
    \/ \E net \in BOOLEAN : addNoteServer(<<"A", "b">>, 0, 0, net)
    \/ \E i \in 1..MaxStored : blurLocal(i, <<" ", "b">>)
    \/ \E i \in 1..MaxStored, net \in BOOLEAN : blurServer(i, <<" ", "b">>, net)
    \/ \E i \in 1..MaxStored : showConfirmModal(i)
    \/ confirmDeleteLocal
    \/ \E net \in BOOLEAN : confirmDeleteServer(net)
    \/ blobCorrupted
    \/ apiDown
    \/ apiUp
    \/ Tick

SpecFail == Init /\ [][NextFail]_vars

\* renderNote on every due date, reminder time, current date and time of day
NextColour ==
    \E day \in {0} \cup ColourDays, reminderTime \in ReminderTimes, column \in DueDateColumns,
       nowDay \in Todays, nowMinute \in Minutes :
        renderNote(day, reminderTime, column, nowDay, nowMinute)

SpecColour == Init /\ [][NextColour]_vars

\* the server-backed client with its requests in flight
NextAsync ==
    \/ \E raw \in {<<"A", "b">>, <<" ", "b">>} : addNoteWhenIdle(raw)
    \/ \E term \in Terms : searchInputStarts(term)
    \/ \E k \in 1..MaxInflight : getResolves(k)
    \/ \E i \in 1..(2 * MaxStored) : pinClickStarts(i)
    \/ \E i \in 1..(2 * MaxStored) : blurStarts(i, <<" ", "b">>)
    \/ \E k \in 1..MaxInflight : putResolves(k)
    \/ \E i \in 1..(2 * MaxStored) : showConfirmModal(i)
    \/ hideConfirmModal
    \/ confirmDeleteStarts
    \/ \E k \in 1..MaxInflight : deleteResolves(k)

SpecAsync == Init /\ [][NextAsync]_vars

\* two files for the import button: an export of one note, and a file that is not
\* an array
SampleFiles == {File(TRUE, TRUE, <<NoteElement(2, <<"b">>)>>), File(TRUE, FALSE, <<>>)}

\* the application with its export and import buttons
NextExport ==
    \/ addNoteLocal(<<"A", "b">>, 0)
    \/ addNoteServer(<<"A", "b">>, 0, 0, TRUE)
    \/ \E file \in SampleFiles, mergeOption \in BOOLEAN : importLocal(file, mergeOption)
    \/ \E file \in SampleFiles, mergeOption \in BOOLEAN : importServer(file, mergeOption)
    \/ \E i \in 1..MaxStored : showConfirmModal(i)
    \/ confirmDeleteLocal
    \/ confirmDeleteServer(TRUE)
    \/ exportNotesLocal
    \/ exportNotesServer
    \/ Tick

SpecExport == Init /\ [][NextExport]_vars

\* the application with the timers of its saving indicator
NextNotify ==
    \/ addNoteLocal(<<"A", "b">>, 0)
    \/ addNoteServer(<<"A", "b">>, 0, 0, TRUE)
    \/ \E i \in 1..MaxStored : blurLocal(i, <<" ", "b">>)
    \/ \E i \in 1..MaxStored : blurServer(i, <<" ", "b">>, TRUE)
    \/ \E i \in 1..MaxStored : togglePinNoteLocal(i)
    \/ \E i \in 1..MaxStored : togglePinNoteServer(i, TRUE)
    \/ \E i \in 1..MaxStored : showConfirmModal(i)
    \/ confirmDeleteLocal
    \/ confirmDeleteServer(TRUE)
    \/ \E file \in SampleFiles : importLocal(file, TRUE)
    \/ \E file \in SampleFiles : importServer(file, TRUE)
    \/ Tick
    \/ hideTimerFires
    \/ clearTimerFires

InitNotify == InitPage /\ timers = NoTimers

\* the event loop runs every timer whose delay has passed
SpecNotify ==
    InitNotify /\ [][NextNotify]_vars /\ WF_vars(hideTimerFires) /\ WF_vars(clearTimerFires)

-----------------------------------------------------------------------------
(* Vocabulary of the properties *)

SameLetter(c, d) == c = d \/ {c, d} = {"a", "A"} \/ {c, d} = {"b", "B"}

\* text contains s, letter case ignored
ContainsIgnoreCase(text, s) ==
    \E o \in 0..(Len(text) - Len(s)) : \A i \in 1..Len(s) : SameLetter(text[o + i], s[i])

Positions(n) == {i \in DOMAIN displayed : displayed[i] = n}

IsPinned(n) == n.pinned = "true"

SamePartition(a, b) == IsPinned(a) <=> IsPinned(b)

DueOf(n) == IF variant = "local" THEN n.dueDate ELSE n.due_date

CreatedOf(n) == IF variant = "local" THEN n.createdAt ELSE n.created_at

\* the last handler ended in a completed renderAllNotes(searchInput.value)
Rendered == last.rendered

DisplayedIds == [i \in DOMAIN displayed |-> displayed[i].id]

-----------------------------------------------------------------------------
(* C1: the displayed sequence is a permutation of exactly the notes of the *)
(* store whose text contains the search term, letter case ignored: every   *)
(* matching note is displayed once, nothing else is displayed; with the     *)
(* empty term it is a permutation of the whole store.                       *)
C1_ProjectionIsPermutationOfMatches ==
    Rendered =>
        /\ \A n \in list :
             ContainsIgnoreCase(n.text, searchTerm) => Cardinality(Positions(n)) = 1
        /\ \A i \in DOMAIN displayed :
             /\ displayed[i] \in list
             /\ ContainsIgnoreCase(displayed[i].text, searchTerm)
        /\ \A i, j \in DOMAIN displayed : i # j => displayed[i] # displayed[j]
        /\ searchTerm = <<>> => Len(displayed) = Cardinality(list)

\* a render under a term that matches one note only through case folding and
\* filters another note out
C1_Witness ==
    /\ Rendered
    /\ searchTerm = <<"a", "B">>
    /\ \E n \in list : n.text = <<"A", "b">> /\ Positions(n) # {}
    /\ \E n \in list : n.text = <<"b">> /\ Positions(n) = {}
    /\ Len(displayed) >= 2

(* C2: in the displayed sequence every pinned note precedes every unpinned *)
(* note, whatever their due dates and creation dates.                       *)
C2_PinnedPrecedeUnpinned ==
    Rendered =>
        \A i, j \in DOMAIN displayed :
            (IsPinned(displayed[i]) /\ ~IsPinned(displayed[j])) => i < j

\* a pinned note without due date, created first, displayed ahead of a newer
\* unpinned note that has a due date
C2_Witness ==
    /\ Rendered
    /\ \E i, j \in DOMAIN displayed :
         /\ i < j
         /\ IsPinned(displayed[i]) /\ ~IsPinned(displayed[j])
         /\ DueOf(displayed[i]) = 0 /\ DueOf(displayed[j]) # 0
         /\ CreatedOf(displayed[i]) < CreatedOf(displayed[j])

(* C3: two notes of the same pinned partition that both have a due date    *)
(* are displayed with the earlier due date first, in both clients.          *)
C3_EarlierDueDateFirst ==
    Rendered =>
        \A i, j \in DOMAIN displayed :
            (/\ SamePartition(displayed[i], displayed[j])
             /\ DueOf(displayed[i]) # 0 /\ DueOf(displayed[j]) # 0
             /\ DueOf(displayed[i]) < DueOf(displayed[j])) => i < j

(* C4: within one pinned partition every note with a due date precedes     *)
(* every note without one; the notes 1 (unpinned, due, created 1), 2       *)
(* (pinned, no due date, created 2), 3 (unpinned, no due date, created 3)  *)
(* under the empty search term are displayed in the order 2, 1, 3.          *)
C4_DatedBeforeUndated ==
    Rendered =>
        /\ \A i, j \in DOMAIN displayed :
             (/\ SamePartition(displayed[i], displayed[j])
              /\ DueOf(displayed[i]) # 0 /\ DueOf(displayed[j]) = 0) => i < j
        /\ (/\ searchTerm = <<>>
            /\ Cardinality(list) = 3
            /\ \E n \in list : n.id = 1 /\ CreatedOf(n) = 1 /\ n.pinned = "false" /\ DueOf(n) # 0
            /\ \E n \in list : n.id = 2 /\ CreatedOf(n) = 2 /\ n.pinned = "true" /\ DueOf(n) = 0
            /\ \E n \in list : n.id = 3 /\ CreatedOf(n) = 3 /\ n.pinned = "false" /\ DueOf(n) = 0)
           => DisplayedIds = <<2, 1, 3>>

(* C5: two notes of the same pinned partition with the same due date and   *)
(* different creation times are displayed with the later created first.    *)
C5_EqualDueDateNewestFirst ==
    Rendered =>
        \A i, j \in DOMAIN displayed :
            (/\ SamePartition(displayed[i], displayed[j])
             /\ DueOf(displayed[i]) # 0 /\ DueOf(displayed[i]) = DueOf(displayed[j])
             /\ CreatedOf(displayed[i]) > CreatedOf(displayed[j])) => i < j

(* C6: two notes of the same pinned partition that both have no due date   *)
(* are displayed with the later created first.                              *)
C6_UndatedNewestFirst ==
    Rendered =>
        \A i, j \in DOMAIN displayed :
            (/\ SamePartition(displayed[i], displayed[j])
             /\ DueOf(displayed[i]) = 0 /\ DueOf(displayed[j]) = 0
             /\ CreatedOf(displayed[i]) > CreatedOf(displayed[j])) => i < j

-----------------------------------------------------------------------------
(* Vocabulary of the Note Store properties *)

\* the last handler's store call was carried out: the local client's calls always
\* are, the server-backed client's when the server answered
Answered == variant = "local" \/ last.status # 0

Existed(id) == \E o \in last.before : o.id = id

\* the caller was told the note does not exist
NotFoundSignalled == last.status = 404

(* C7: after update(id, {text: x}) on an existing note the store holds the  *)
(* note with text x and every other field as before, and every other note   *)
(* unchanged, in both clients.                                              *)
C7_TextEditKeepsOtherFields ==
    (/\ last.op = "update" /\ DOMAIN last.updates = {"text"}
     /\ Answered /\ Existed(last.id)) =>
        /\ \A o \in last.before :
             IF o.id = last.id
             THEN [o EXCEPT !.text = last.updates.text] \in list
             ELSE o \in list
        /\ \A n \in list :
             IF n.id = last.id
             THEN \E o \in last.before : n = [o EXCEPT !.text = last.updates.text]
             ELSE n \in last.before

(* C8: a pin toggle of an existing note succeeds and leaves the stored note *)
(* with pinned negated and every other field as before, in both clients.    *)
C8_PinToggleNegatesPinned ==
    (/\ last.op = "update" /\ DOMAIN last.updates = {"pinned"}
     /\ Answered /\ Existed(last.id)) =>
        /\ last.notified /\ alerts = ""
        /\ \A o \in last.before :
             IF o.id = last.id
             THEN /\ [o EXCEPT !.pinned = Negate(o.pinned)] \in list
                  /\ last.updates.pinned = Negate(o.pinned)
             ELSE o \in list
        /\ \A n \in list :
             IF n.id = last.id
             THEN \E o \in last.before : n = [o EXCEPT !.pinned = Negate(o.pinned)]
             ELSE n \in last.before

(* C9: update(id, fields) with an id that is not in the store signals       *)
(* NotFound to the caller, leaves the collection unchanged, and no success  *)
(* notification is shown for it.                                            *)
C9_UpdateUnknownIdSignalsNotFound ==
    (last.op = "update" /\ Answered /\ ~Existed(last.id)) =>
        /\ NotFoundSignalled
        /\ list = last.before
        /\ ~last.notified

(* C10: after delete(id) of an existing note the store holds no note with   *)
(* that id and every other note unchanged; delete(id) of an id that is no   *)
(* longer there yields NotFound and is not reported as a success.           *)
C10_DeleteThenNotFound ==
    (last.op = "delete" /\ Answered) =>
        IF Existed(last.id)
        THEN /\ \A n \in list : n.id # last.id /\ n \in last.before
             /\ \A o \in last.before : o.id # last.id => o \in list
        ELSE /\ NotFoundSignalled
             /\ ~last.notified
             /\ list = last.before

-----------------------------------------------------------------------------
(* Vocabulary of the create, text and id properties *)

\* a text that is empty or only whitespace
IsBlank(text) == \A i \in DOMAIN text : text[i] = " "

\* the last handler issued a Note Store write
Wrote == \E i \in DOMAIN last.calls : last.calls[i] \in {"setItem", "POST", "PUT", "DELETE"}

(* C14: create with a text that is empty or only whitespace creates no note, *)
(* issues no Note Store write and leaves the collection unchanged.           *)
C14_BlankCreateIsNoOp ==
    (last.op = "create" /\ IsBlank(last.updates.text)) =>
        /\ list = last.before
        /\ ~Wrote
        /\ ~last.notified

\* a whitespace-only text submitted to a store that already holds a note
C14_Witness ==
    /\ last.op = "create"
    /\ last.updates.text = <<" ">>
    /\ list # {}

-----------------------------------------------------------------------------
(* Vocabulary of the import properties *)

\* the last handler was an import of a file that parsed
ImportedFile == last.op = "import" /\ last.updates.file.parses

\* the file is a sequence of objects that each have an id and a text
ValidSnapshot(file) ==
    /\ file.isArray
    /\ \A i \in DOMAIN file.elems :
         /\ file.elems[i].type = "object"
         /\ file.elems[i].hasId
         /\ file.elems[i].hasText

SnapshotNotes == {last.updates.file.elems[i].note : i \in DOMAIN last.updates.file.elems}

IdsBefore == {o.id : o \in last.before}

(* C11: after an import in merge mode of a valid snapshot every note that   *)
(* was in the store is still in it unchanged, and the notes added are       *)
(* exactly the snapshot notes whose id was not in the store.                *)
C11_MergeKeepsAndAddsNew ==
    (ImportedFile /\ ValidSnapshot(last.updates.file) /\ last.updates.merge) =>
        /\ last.before \subseteq list
        /\ list \ last.before = {n \in SnapshotNotes : n.id \notin IdsBefore}

(* C12: after an import in replace mode of a valid snapshot the store holds *)
(* exactly the notes of the snapshot, in both clients.                      *)
C12_ReplaceLeavesSnapshot ==
    (ImportedFile /\ ValidSnapshot(last.updates.file) /\ ~last.updates.merge) =>
        list = SnapshotNotes

(* C13: an import whose payload is not an array, or has an element that is  *)
(* not a non-null object with an id and a text, is rejected with an alert   *)
(* before the merge/replace question, and the stored collection is the one  *)
(* before the import.                                                       *)
C13_InvalidImportRejected ==
    (ImportedFile /\ ~ValidSnapshot(last.updates.file)) =>
        /\ alerts = "Invalid JSON file format. Please select a valid ProNotes export file."
        /\ ~last.updates.asked
        /\ ~Wrote
        /\ ~last.notified
        /\ list = last.before

\* an array whose first element is a note and whose second lacks a text, imported
\* over a store that holds a note
C13_Witness ==
    /\ ImportedFile
    /\ last.updates.file.isArray
    /\ Len(last.updates.file.elems) = 2
    /\ ValidSnapshot([last.updates.file EXCEPT !.elems = <<@[1]>>])
    /\ last.updates.file.elems[2].type = "object"
    /\ last.updates.file.elems[2].hasId
    /\ ~last.updates.file.elems[2].hasText
    /\ list # {}
    /\ alerts # ""

(* C15: in every reachable state every stored note has a text that is       *)
(* non-empty after trimming.                                                *)
C15_StoredTextNeverBlank ==
    \A n \in list : ~IsBlank(n.text)

(* C16: in every reachable state no two stored notes have the same id.      *)
C16_IdsUnique ==
    IF variant = "local"
    THEN \A i, j \in DOMAIN localStorage : localStorage[i].id = localStorage[j].id => i = j
    ELSE \A r, q \in db : r.id = q.id => r = q

-----------------------------------------------------------------------------
(* Vocabulary of the confirmation property *)

\* the step is a run of deleteNote / of the confirm listener with nothing pending
DeleteStep == last'.op = "delete" /\ last' # last

IdleConfirmStep == last'.op = "confirm" /\ last' # last

StoredIds == {n.id : n \in list}

\* the step leaves the page of this client as it is (another client acted)
PageUnchanged == UNCHANGED <<displayed, searchTerm, noteIdToDelete, modalActive, indicator>>

-----------------------------------------------------------------------------
(* Vocabulary of the failure properties *)

\* the last handler's list() failed: its read found the medium unreadable
ListFailed == ~readable /\ \E i \in DOMAIN last.calls : last.calls[i] \in {"getItem", "GET"}

\* the last handler's write request failed: no response, or a non-OK one
WriteFailed ==
    /\ variant = "server"
    /\ last.op \in {"create", "update", "delete"}
    /\ last.calls # <<>>
    /\ last.status \notin {200, 201, 204}

(* C18: when list() fails because the medium cannot be read, the render     *)
(* that called it completes without throwing and displays an empty          *)
(* collection, in both clients.                                             *)
C18_FailedListRendersEmpty ==
    (last.op = "list" /\ ListFailed) =>
        /\ ~last.threw
        /\ last.rendered
        /\ displayed = <<>>

(* C19: every failed Note Store call produces an alert and no success       *)
(* notification, and is not retried: the handler issues no store call twice.*)
C19_FailedCallAlertsOnce ==
    (ListFailed \/ WriteFailed) =>
        /\ alerts # ""
        /\ WriteFailed => ~last.notified
        /\ \A i, j \in DOMAIN last.calls :
             (last.calls[i] = last.calls[j] /\ last.calls[i] # "getItem") => i = j

-----------------------------------------------------------------------------
(* Vocabulary of the colour property *)

Classified == colour.class # ""

\* the tag the classification rule gives
ExpectedClass(day, reminderTime, today, minute) ==
    IF day = 0 THEN "color-default"
    ELSE IF day < today \/ (day = today /\ reminderTime # 0 /\ reminderTime < minute)
    THEN "color-overdue"
    ELSE IF day = today THEN "color-due-today"
    ELSE IF day = today + 1 THEN "color-due-tomorrow"
    ELSE "color-default"

(* C20: for every due date (or none), reminder time (or none), current date *)
(* and time of day, the class of a rendered note is overdue iff the due     *)
(* date is before today, or is today with a reminder time earlier than now; *)
(* due-today iff it is today and not overdue; due-tomorrow iff it is        *)
(* today + 1; default otherwise.                                            *)
C20_ColourClassFollowsDueDate ==
    Classified =>
        colour.class = ExpectedClass(colour.due_date.day, colour.reminder_time,
                                     colour.today, colour.minute)

-----------------------------------------------------------------------------
(* The saving indicator *)

\* the step is a create, update, delete or import that changed the store
MutatingStep ==
    /\ last' # last
    /\ last'.op \in {"create", "update", "delete", "import"}
    /\ (localStorage' # localStorage \/ db' # db)

\* the step shows the notification and sets a timer that hides it
ShowsNotification ==
    /\ indicator' # ""
    /\ timers'.visible
    /\ timers'.hide > timers.hide

\* the last handler stored the whole array with localStorage.setItem
FullWrite == \E i \in DOMAIN last.calls : last.calls[i] = "setItem"

\* the last handler sent a request that carries or names one note
RowWrite == \E i \in DOMAIN last.calls : last.calls[i] \in {"POST", "PUT", "DELETE"}

\* the write of the last handler is the one its client makes for that call
WroteAsItsClientDoes ==
    IF variant = "local" \/ last.op = "import" THEN FullWrite /\ ~RowWrite
    ELSE RowWrite /\ ~FullWrite

-----------------------------------------------------------------------------
(* Export *)

\* the notes of the file the last export downloaded
ExportedNotes == Range(last.updates.snapshot)

(* C22: an export that completes gives a snapshot whose notes are exactly    *)
(* the notes list() returns at that moment, with the same ids and field     *)
(* values, in both clients.  (An export of an empty collection may give no  *)
(* file.)                                                                   *)
C22_ExportIsTheList ==
    (last.op = "export" /\ ~last.threw) =>
        /\ last.before # {} => last.updates.produced
        /\ last.updates.produced => ExportedNotes = last.before

-----------------------------------------------------------------------------
(* Requests in flight *)

\* the renders whose fetch is not answered yet
PendingRenders == {k \in DOMAIN inflight : inflight[k].kind = "GET"}

(* C23: in the server-backed client, once every render that was started has *)
(* completed, the displayed sequence is the projection of the list fetched   *)
(* last under the search term typed last, each note displayed once, also    *)
(* when a render started before the fetch of an earlier one was answered.   *)
C23_OverlappingRendersSettle ==
    (variant = "server" /\ PendingRenders = {}) =>
        displayed = projectServer(engine, fetchNotes, searchTerm)

\* the request is the PUT of a pin toggle
IsToggle(r) == r.kind = "PUT" /\ DOMAIN r.body = {"pinned"}

\* the last handler is the answer to the PUT of a pin toggle of a stored note
ToggleAnswered ==
    /\ last.op = "update"
    /\ DOMAIN last.updates = {"pinned"}
    /\ last.calls = <<"PUT">>
    /\ \E o \in last.before : o.id = last.id

(* C24: in the server-backed client two pin toggles of one note, the second  *)
(* issued before the first one has been answered and re-rendered, give the   *)
(* note its pinned flag of before the first: the second toggle asks for the  *)
(* negation of what the first asked for, and a toggle that is answered has   *)
(* negated the flag the store held, not the flag read at an earlier render.  *)
C24_TogglesNegateStoredFlag ==
    /\ \A j, k \in DOMAIN inflight :
         (j < k /\ IsToggle(inflight[j]) /\ IsToggle(inflight[k])
                /\ inflight[j].id = inflight[k].id) =>
             inflight[k].body.pinned = Negate(inflight[j].body.pinned)
    /\ ToggleAnswered =>
         \A n \in db, o \in last.before :
             (n.id = last.id /\ o.id = last.id) => n.pinned = Negate(o.pinned)

\* the deleteNote calls that have not reached the end of their finally block
DeleteCalls == {k \in DOMAIN inflight : inflight[k].deleting # 0}

\* the notes those calls delete
Deleting == {inflight[k].deleting : k \in DeleteCalls}

\* the step ends a deleteNote call
DeleteCallEnds == Cardinality(DeleteCalls') < Cardinality(DeleteCalls)

(* C25: the confirmation modal is active iff noteIdToDelete is non-null, and *)
(* in the server-backed client a confirmation that is pending for a note B   *)
(* when the deleteNote call of another note A ends is still pending for B    *)
(* afterwards: only confirming or cancelling B clears it.                   *)
C25_PendingDeleteSurvives ==
    [][/\ modalActive' <=> noteIdToDelete' # 0
       /\ (DeleteCallEnds /\ modalActive /\ noteIdToDelete \notin Deleting) =>
              (modalActive' /\ noteIdToDelete' = noteIdToDelete)]_vars

=============================================================================
